---------------------------- MODULE Spec2Model ----------------------------
(***************************************************************************)
(* Model of the payload codecs of qxmpp:                                   *)
(*   src/base/QXmppExternalServiceDiscoveryIq.cpp  (XEP-0215)              *)
(*   src/omemo/QXmppOmemoData.cpp                  (XEP-0384)              *)
(*                                                                         *)
(* Texts (attribute values, element text) are sequences of one-character   *)
(* strings, so that number, base64 and timestamp conversions are computed  *)
(* character by character.  Tag names, attribute names and namespace URIs  *)
(* are only ever compared, and are plain strings.                          *)
(*                                                                         *)
(* std::optional<T> is a sequence of length 0 (nullopt) or 1 (a value).    *)
(*                                                                         *)
(* uint32_t is a pair of 16-bit limbs [hi, lo] (value hi * 65536 + lo):    *)
(* the model checker's integers are 32-bit signed and cannot hold the      *)
(* upper half of the uint32_t range.  int is an integer in                 *)
(* [-INT32_MAX - 1, INT32_MAX].                                            *)
(***************************************************************************)
EXTENDS Integers, Sequences, FiniteSets, TLC

---------------------------------------------------------------------------
(* Bounds of the model *)

\* Largest number of child elements of a services, devices or iq element
\* handed to a parse or a recognizer.
MaxChildren == 3
\* Largest number of pk children of a prekeys element handed to a parse.
MaxPreKeys == 2
\* Largest number of addPublicPreKey / removePublicPreKey calls on a bundle,
\* and of addExternalService calls on an IQ.
MaxEdits == 2
\* Largest number of devices appended to a device list.
MaxAppends == 2

---------------------------------------------------------------------------
(* Program constants *)

\* std::numeric_limits<int32_t>::max()
INT32_MAX == 2147483647

ns_omemo_2 == "urn:xmpp:omemo:2"
ns_external_service_discovery == "urn:xmpp:extdisco:2"
\* A namespace other than the two above.
ns_other == "urn:example:other"
\* The namespace of an element that declares and inherits none.
ns_none == ""

---------------------------------------------------------------------------
(* Generic helpers *)

None == <<>>
Some(v) == <<v>>
IsSet(o) == Len(o) = 1
Value(o) == o[1]

RECURSIVE Concat(_)
Concat(ss) == IF ss = <<>> THEN <<>> ELSE Head(ss) \o Concat(Tail(ss))

RECURSIVE SeqOfSet(_)
\* The elements of a finite set, in some fixed order.
SeqOfSet(S) == IF S = {} THEN <<>>
               ELSE LET x == CHOOSE y \in S : TRUE IN <<x>> \o SeqOfSet(S \ {x})

\* All orderings of the elements of a finite set.
Orderings(S) == { p \in [1..Cardinality(S) -> S] : \A i, j \in 1..Cardinality(S) : i # j => p[i] # p[j] }

\* All sequences over S of length at most n.
RECURSIVE SeqsUpTo(_, _)
SeqsUpTo(S, n) == IF n = 0 THEN { <<>> }
                  ELSE LET R == SeqsUpTo(S, n - 1)
                       IN  R \cup { Append(r, x) : r \in { q \in R : Len(q) = n - 1 }, x \in S }

---------------------------------------------------------------------------
(* Integer <-> text: QString::number and QString::toInt *)

DigitChars == <<"0", "1", "2", "3", "4", "5", "6", "7", "8", "9">>
IsDigit(c) == \E i \in 1..10 : DigitChars[i] = c
DigitVal(c) == (CHOOSE i \in 1..10 : DigitChars[i] = c) - 1

RECURSIVE NatDigits(_)
\* Decimal digits of a natural number that fits an int, without leading zeros.
NatDigits(n) == IF n < 10 THEN <<DigitChars[n + 1]>>
                ELSE Append(NatDigits(n \div 10), DigitChars[(n % 10) + 1])

\* QString::number(int)
NumberInt(i) ==
    IF i >= 0 THEN NatDigits(i)
    ELSE IF i = -INT32_MAX - 1 THEN <<"-">> \o Append(NatDigits(INT32_MAX \div 10), "8")
    ELSE <<"-">> \o NatDigits(-i)

\* uint32_t values
U32(h, l) == [hi |-> h, lo |-> l]
U32Zero == U32(0, 0)
U32OfNat(n) == U32(n \div 65536, n % 65536)
\* The conversion int -> uint32_t of an assignment (modulo 2^32).
U32OfInt(i) == IF i >= 0 THEN U32OfNat(i)
               ELSE LET j == (i + INT32_MAX) + 1   \* i + 2^31, in [0, 2^31)
                    IN  U32((j \div 65536) + 32768, j % 65536)
U32AboveInt32Max(u) == u.hi >= 32768

RECURSIVE U32Digits(_)
\* Decimal digits of a uint32_t, by long division of the two limbs by 10.
U32Digits(u) ==
    LET qh  == u.hi \div 10
        mid == (u.hi % 10) * 65536 + u.lo
        ql  == mid \div 10
        r   == mid % 10
        \* quotient = qh * 65536 + ql, where ql may exceed 16 bits
        q   == U32(qh + (ql \div 65536), ql % 65536)
    IN  IF q = U32Zero THEN <<DigitChars[r + 1]>>
        ELSE Append(U32Digits(q), DigitChars[r + 1])

\* QString::number(uint32_t)
NumberU32(u) == U32Digits(u)

RECURSIVE DigitsValue(_, _)
\* The value of a digit string, or -1 when it exceeds INT32_MAX.
DigitsValue(ds, acc) ==
    IF ds = <<>> THEN acc
    ELSE LET d == DigitVal(Head(ds))
         IN  IF acc > (INT32_MAX - d) \div 10 THEN -1
             ELSE DigitsValue(Tail(ds), acc * 10 + d)

Int32MinDigits == Append(NatDigits(INT32_MAX \div 10), "8")

RECURSIVE StripZeros(_)
StripZeros(ds) == IF Len(ds) > 1 /\ Head(ds) = "0" THEN StripZeros(Tail(ds)) ELSE ds

\* QString::toInt(): base 10, an optional sign, 0 when the text is not a
\* number or does not fit an int.
ToInt(s) ==
    LET neg  == s # <<>> /\ Head(s) = "-"
        sign == s # <<>> /\ Head(s) \in {"-", "+"}
        ds   == IF sign THEN Tail(s) ELSE s
    IN  IF ds = <<>> \/ \E i \in 1..Len(ds) : ~IsDigit(ds[i]) THEN 0
        ELSE LET v == DigitsValue(ds, 0)
             IN  IF v >= 0 THEN (IF neg THEN -v ELSE v)
                 ELSE IF neg /\ StripZeros(ds) = Int32MinDigits THEN -INT32_MAX - 1
                 ELSE 0

---------------------------------------------------------------------------
(* Bytes <-> text: QByteArray::toBase64 and QByteArray::fromBase64 *)

B64Chars ==
    <<"A", "B", "C", "D", "E", "F", "G", "H", "I", "J", "K", "L", "M",
      "N", "O", "P", "Q", "R", "S", "T", "U", "V", "W", "X", "Y", "Z",
      "a", "b", "c", "d", "e", "f", "g", "h", "i", "j", "k", "l", "m",
      "n", "o", "p", "q", "r", "s", "t", "u", "v", "w", "x", "y", "z",
      "0", "1", "2", "3", "4", "5", "6", "7", "8", "9", "+", "/">>
IsB64(c) == \E i \in 1..64 : B64Chars[i] = c
B64Val(c) == (CHOOSE i \in 1..64 : B64Chars[i] = c) - 1
B64(v) == B64Chars[v + 1]

RECURSIVE ToBase64(_)
\* QByteArray::toBase64(): three bytes to four characters, '=' padding.
ToBase64(bs) ==
    IF bs = <<>> THEN <<>>
    ELSE IF Len(bs) = 1 THEN
        <<B64(bs[1] \div 4), B64((bs[1] % 4) * 16), "=", "=">>
    ELSE IF Len(bs) = 2 THEN
        <<B64(bs[1] \div 4), B64((bs[1] % 4) * 16 + (bs[2] \div 16)),
          B64((bs[2] % 16) * 4), "=">>
    ELSE
        <<B64(bs[1] \div 4), B64((bs[1] % 4) * 16 + (bs[2] \div 16)),
          B64((bs[2] % 16) * 4 + (bs[3] \div 64)), B64(bs[3] % 64)>>
        \o ToBase64(SubSeq(bs, 4, Len(bs)))

Pow2(n) == CASE n = 0 -> 1 [] n = 2 -> 4 [] n = 4 -> 16 [] n = 6 -> 64 [] OTHER -> 1

RECURSIVE B64Decode(_, _, _, _)
B64Decode(s, buf, nbits, out) ==
    IF s = <<>> THEN out
    ELSE IF ~IsB64(Head(s)) THEN B64Decode(Tail(s), buf, nbits, out)
    ELSE LET b == buf * 64 + B64Val(Head(s))
             n == nbits + 6
         IN  IF n >= 8
             THEN B64Decode(Tail(s), b % Pow2(n - 8), n - 8, Append(out, b \div Pow2(n - 8)))
             ELSE B64Decode(Tail(s), b, n, out)

\* QByteArray::fromBase64() with its default options: characters outside the
\* alphabet (the padding among them) are skipped, leftover bits are dropped.
FromBase64(s) == B64Decode(s, 0, 0, <<>>)

---------------------------------------------------------------------------
(* Timestamp <-> text *)

\* A QDateTime in UTC; the invalid QDateTime has valid = FALSE.
DateTime(y, mo, d, h, mi, s, ms) ==
    [valid |-> TRUE, y |-> y, mo |-> mo, d |-> d, h |-> h, mi |-> mi, s |-> s, ms |-> ms]
InvalidDateTime ==
    [valid |-> FALSE, y |-> 0, mo |-> 0, d |-> 0, h |-> 0, mi |-> 0, s |-> 0, ms |-> 0]

RECURSIVE Pad(_, _)
\* n in decimal, zero-padded to w digits.
Pad(n, w) == IF w = 0 THEN <<>> ELSE Append(Pad(n \div 10, w - 1), DigitChars[(n % 10) + 1])

\* QDateTime::toString(Qt::ISODateWithMs): yyyy-MM-ddTHH:mm:ss.zzzZ, and the
\* empty text for an invalid QDateTime.
ToStringISODateWithMs(dt) ==
    IF ~dt.valid THEN <<>>
    ELSE Pad(dt.y, 4) \o <<"-">> \o Pad(dt.mo, 2) \o <<"-">> \o Pad(dt.d, 2) \o <<"T">>
         \o Pad(dt.h, 2) \o <<":">> \o Pad(dt.mi, 2) \o <<":">> \o Pad(dt.s, 2)
         \o <<".">> \o Pad(dt.ms, 3) \o <<"Z">>

AllDigits(s) == \A i \in 1..Len(s) : IsDigit(s[i])

\* QXmppUtils::datetimeFromString: the fixed profile above; any other text
\* gives the invalid QDateTime.
datetimeFromString(s) ==
    IF /\ Len(s) = 24
       /\ s[5] = "-" /\ s[8] = "-" /\ s[11] = "T" /\ s[14] = ":" /\ s[17] = ":"
       /\ s[20] = "." /\ s[24] = "Z"
       /\ AllDigits(SubSeq(s, 1, 4)) /\ AllDigits(SubSeq(s, 6, 7))
       /\ AllDigits(SubSeq(s, 9, 10)) /\ AllDigits(SubSeq(s, 12, 13))
       /\ AllDigits(SubSeq(s, 15, 16)) /\ AllDigits(SubSeq(s, 18, 19))
       /\ AllDigits(SubSeq(s, 21, 23))
    THEN LET dt == DateTime(DigitsValue(SubSeq(s, 1, 4), 0), DigitsValue(SubSeq(s, 6, 7), 0),
                            DigitsValue(SubSeq(s, 9, 10), 0), DigitsValue(SubSeq(s, 12, 13), 0),
                            DigitsValue(SubSeq(s, 15, 16), 0), DigitsValue(SubSeq(s, 18, 19), 0),
                            DigitsValue(SubSeq(s, 21, 23), 0))
         IN  IF dt.mo \in 1..12 /\ dt.d \in 1..31 /\ dt.h < 24 /\ dt.mi < 60 /\ dt.s < 60
             THEN dt ELSE InvalidDateTime
    ELSE InvalidDateTime

---------------------------------------------------------------------------
(* The parse source (QDomElement) and the serialize sink (QXmlStreamWriter) *)

\* A DOM element: attrs is the sequence of <<name, value>> pairs in document
\* order, children the child elements, text the element's character data.
Element(tag, ns, attrs, children, text) ==
    [tag |-> tag, ns |-> ns, attrs |-> attrs, children |-> children, text |-> text]
\* A null QDomElement.
NullElement == Element("", ns_none, <<>>, <<>>, <<>>)
isNull(el) == el.tag = ""

\* QDomNamedNodeMap::contains
contains(el, name) == \E i \in 1..Len(el.attrs) : el.attrs[i][1] = name
\* QDomElement::attribute: the value, or the empty text when absent.
attribute(el, name) ==
    IF contains(el, name)
    THEN el.attrs[CHOOSE i \in 1..Len(el.attrs) :
                    /\ el.attrs[i][1] = name
                    /\ \A j \in 1..(i - 1) : el.attrs[j][1] # name][2]
    ELSE <<>>
AttributeNames(el) == { el.attrs[i][1] : i \in 1..Len(el.attrs) }

RECURSIVE SelectTag(_, _)
SelectTag(els, tag) ==
    IF els = <<>> THEN <<>>
    ELSE (IF Head(els).tag = tag THEN <<Head(els)>> ELSE <<>>) \o SelectTag(Tail(els), tag)

\* QDomElement::firstChildElement(tagName): the first child element with that
\* tag, or a null element.
QDomElement_firstChildElement(el, tag) ==
    LET m == SelectTag(el.children, tag) IN IF m = <<>> THEN NullElement ELSE Head(m)
\* QDomElement::firstChildElement(): the first child element of any tag.
firstChild(el) == IF el.children = <<>> THEN NullElement ELSE Head(el.children)
\* firstChildElement(el, tagName) of QXmppUtils_p.h: the first child element
\* with that tag, or a null element.
firstChildElement(el, tag) ==
    LET m == SelectTag(el.children, tag) IN IF m = <<>> THEN NullElement ELSE Head(m)
\* iterChildElements(el) of QXmppUtils_p.h: every child element, in document
\* order.
iterChildElements(el) == el.children
\* iterChildElements(el, tagName) of QXmppUtils_p.h: the children with that
\* tag, in document order, whatever their namespace.
iterChildElementsNamed(el, tag) == SelectTag(el.children, tag)

\* Sink calls
writeStartElement(name) == <<[op |-> "start", name |-> name, value |-> <<>>]>>
writeEndElement == <<[op |-> "end", name |-> "", value |-> <<>>]>>
writeDefaultNamespace(uri) == <<[op |-> "ns", name |-> uri, value |-> <<>>]>>
writeAttribute(name, value) == <<[op |-> "attr", name |-> name, value |-> value]>>
writeCharacters(text) == <<[op |-> "chars", name |-> "", value |-> text]>>

SetLast(stack, e) == [stack EXCEPT ![Len(stack)] = e]

RECURSIVE Build(_, _, _, _)
\* Replays sink calls: stack holds the open elements (innermost last), done
\* the closed top-level elements.  An element starts in the default
\* namespace in force where it is opened; a close with nothing open is
\* dropped.
Build(evs, i, stack, done) ==
    IF i > Len(evs) THEN [done |-> done, open |-> stack]
    ELSE LET e == evs[i]
             n == Len(stack)
         IN  CASE e.op = "start" ->
                    Build(evs, i + 1,
                          Append(stack, Element(e.name, IF n = 0 THEN ns_none ELSE stack[n].ns,
                                                <<>>, <<>>, <<>>)), done)
               [] e.op = "end" /\ n = 0 -> Build(evs, i + 1, stack, done)
               [] e.op = "end" /\ n = 1 -> Build(evs, i + 1, <<>>, Append(done, stack[1]))
               [] e.op = "end" /\ n > 1 ->
                    Build(evs, i + 1,
                          SetLast(SubSeq(stack, 1, n - 1),
                                  [stack[n - 1] EXCEPT !.children = Append(@, stack[n])]),
                          done)
               [] n = 0 -> Build(evs, i + 1, stack, done)
               [] e.op = "ns" ->
                    Build(evs, i + 1, SetLast(stack, [stack[n] EXCEPT !.ns = e.name]), done)
               [] e.op = "attr" ->
                    Build(evs, i + 1,
                          SetLast(stack, [stack[n] EXCEPT !.attrs = Append(@, <<e.name, e.value>>)]),
                          done)
               [] OTHER ->
                    Build(evs, i + 1, SetLast(stack, [stack[n] EXCEPT !.text = @ \o e.value]), done)

\* The top-level elements a reader finds in what the sink was given.
Written(evs) == Build(evs, 1, <<>>, <<>>).done

\* Sink depth after the calls evs: opens minus closes.
RECURSIVE Depth(_)
Depth(evs) ==
    IF evs = <<>> THEN 0
    ELSE Depth(SubSeq(evs, 1, Len(evs) - 1))
         + (CASE evs[Len(evs)].op = "start" -> 1 [] evs[Len(evs)].op = "end" -> -1 [] OTHER -> 0)

---------------------------------------------------------------------------
(* QXmppExternalService *)

Actions == {"Add", "Delete", "Modify"}
Transports == {"Tcp", "Udp"}

T_add == <<"a", "d", "d">>
T_delete == <<"d", "e", "l", "e", "t", "e">>
T_modify == <<"m", "o", "d", "i", "f", "y">>
T_tcp == <<"t", "c", "p">>
T_udp == <<"u", "d", "p">>
T_true == <<"t", "r", "u", "e">>
T_false == <<"f", "a", "l", "s", "e">>
T_1 == <<"1">>

\* actionToString with the token of Action::Modify misspelt.
actionToString_misspelt(action) ==
    CASE action = "Add" -> T_add
      [] action = "Delete" -> T_delete
      [] action = "Modify" -> <<"m", "o", "d">>
      [] OTHER -> <<>>

actionToString(action) ==
    CASE action = "Add" -> T_add
      [] action = "Delete" -> T_delete
      [] action = "Modify" -> T_modify
      [] OTHER -> <<>>

\* actionFromString falling back to Action::Add for an unknown token.
actionFromString_fallback(string) ==
    IF string = T_delete THEN Some("Delete")
    ELSE IF string = T_modify THEN Some("Modify")
    ELSE Some("Add")

actionFromString(string) ==
    IF string = T_add THEN Some("Add")
    ELSE IF string = T_delete THEN Some("Delete")
    ELSE IF string = T_modify THEN Some("Modify")
    ELSE None

transportToString(transport) ==
    CASE transport = "Tcp" -> T_tcp
      [] transport = "Udp" -> T_udp
      [] OTHER -> <<>>

transportFromString(string) ==
    IF string = T_tcp THEN Some("Tcp")
    ELSE IF string = T_udp THEN Some("Udp")
    ELSE None

\* QXmppExternalServicePrivate, as the constructor leaves it.
QXmppExternalServicePrivate ==
    [host |-> <<>>, type |-> <<>>, action |-> None, expires |-> None, name |-> None,
     password |-> None, port |-> None, restricted |-> None, transport |-> None,
     username |-> None]

setHost(d, host) == [d EXCEPT !.host = host]
setType(d, type) == [d EXCEPT !.type = type]
setAction(d, action) == [d EXCEPT !.action = action]
setExpires(d, expires) == [d EXCEPT !.expires = expires]
setName(d, name) == [d EXCEPT !.name = name]
setPassword(d, password) == [d EXCEPT !.password = password]
setPort(d, port) == [d EXCEPT !.port = port]
setRestricted(d, restricted) == [d EXCEPT !.restricted = restricted]
setTransport(d, transport) == [d EXCEPT !.transport = transport]
setUsername(d, username) == [d EXCEPT !.username = username]

isExternalService(element) ==
    IF element.tag # "service" THEN FALSE
    ELSE attribute(element, "host") # <<>> /\ attribute(element, "type") # <<>>

\* QXmppExternalService::parse on an object whose fields are d.
ExternalService_parse(d, el) ==
    LET d1 == setType(setHost(d, attribute(el, "host")), attribute(el, "type"))
        d2 == [d1 EXCEPT !.action = actionFromString(attribute(el, "action"))]
        d3 == IF contains(el, "expires")
              THEN setExpires(d2, Some(datetimeFromString(attribute(el, "expires")))) ELSE d2
        d4 == IF contains(el, "name") THEN setName(d3, Some(attribute(el, "name"))) ELSE d3
        d5 == IF contains(el, "password")
              THEN setPassword(d4, Some(attribute(el, "password"))) ELSE d4
        d6 == IF contains(el, "port") THEN setPort(d5, Some(ToInt(attribute(el, "port")))) ELSE d5
        d7 == IF contains(el, "restricted")
              THEN LET restrictedStr == attribute(el, "restricted")
                   IN  setRestricted(d6, Some(restrictedStr = T_true \/ restrictedStr = T_1))
              ELSE d6
        d8 == [d7 EXCEPT !.transport = transportFromString(attribute(el, "transport"))]
    IN  IF contains(el, "username") THEN setUsername(d8, Some(attribute(el, "username"))) ELSE d8

\* writeOptionalXmlAttribute(writer, name, value) of QXmppUtils_p.h.
writeOptionalXmlAttribute(name, value) == writeAttribute(name, value)

\* The statements of QXmppExternalService::toXml that write one optional
\* field each.
toXml_action(d) ==
    IF IsSet(d.action)
    THEN writeOptionalXmlAttribute("action", actionToString(Value(d.action))) ELSE <<>>
toXml_expires(d) ==
    IF IsSet(d.expires)
    THEN writeOptionalXmlAttribute("expires", ToStringISODateWithMs(Value(d.expires))) ELSE <<>>
toXml_name(d) ==
    IF IsSet(d.name) THEN writeOptionalXmlAttribute("name", Value(d.name)) ELSE <<>>
toXml_password(d) ==
    IF IsSet(d.password) THEN writeOptionalXmlAttribute("password", Value(d.password)) ELSE <<>>
\* toXml_port without the test of d->port: an unset port is written as 0.
toXml_port_unguarded(d) ==
    writeOptionalXmlAttribute("port", NumberInt(IF IsSet(d.port) THEN Value(d.port) ELSE 0))

toXml_port(d) ==
    IF IsSet(d.port) THEN writeOptionalXmlAttribute("port", NumberInt(Value(d.port))) ELSE <<>>
\* toXml_restricted with the tokens yes and no.
toXml_restricted_yesNo(d) ==
    IF IsSet(d.restricted)
    THEN writeOptionalXmlAttribute("restricted",
                                   IF Value(d.restricted) THEN <<"y", "e", "s">> ELSE <<"n", "o">>)
    ELSE <<>>

toXml_restricted(d) ==
    IF IsSet(d.restricted)
    THEN writeOptionalXmlAttribute("restricted", IF Value(d.restricted) THEN T_true ELSE T_false)
    ELSE <<>>
toXml_transport(d) ==
    IF IsSet(d.transport)
    THEN writeOptionalXmlAttribute("transport", transportToString(Value(d.transport))) ELSE <<>>
toXml_username(d) ==
    IF IsSet(d.username) THEN writeOptionalXmlAttribute("username", Value(d.username)) ELSE <<>>

\* QXmppExternalService::toXml: the sink calls it makes.
ExternalService_toXml(d) ==
    writeStartElement("service")
    \o writeOptionalXmlAttribute("host", d.host)
    \o writeOptionalXmlAttribute("type", d.type)
    \o toXml_action(d)
    \o toXml_expires(d)
    \o toXml_name(d)
    \o toXml_password(d)
    \o toXml_port(d)
    \o toXml_restricted(d)
    \o toXml_transport(d)
    \o toXml_username(d)
    \o writeEndElement

---------------------------------------------------------------------------
(* QXmppExternalServiceDiscoveryIq *)

\* d->externalServices after addExternalService.
addExternalService(externalServices, externalService) ==
    Append(externalServices, externalService)

RECURSIVE AppendServices_stopping(_, _)
\* The loop of parseElementFromChild leaving at the first child that is no
\* external service.
AppendServices_stopping(externalServices, els) ==
    IF els = <<>> \/ ~isExternalService(Head(els)) THEN externalServices
    ELSE AppendServices_stopping(
            Append(externalServices,
                   ExternalService_parse(QXmppExternalServicePrivate, Head(els))),
            Tail(els))

RECURSIVE AppendServices(_, _)
\* The loop of parseElementFromChild over the children els.
AppendServices(externalServices, els) ==
    IF els = <<>> THEN externalServices
    ELSE AppendServices(
            IF isExternalService(Head(els))
            THEN Append(externalServices,
                        ExternalService_parse(QXmppExternalServicePrivate, Head(els)))
            ELSE externalServices,
            Tail(els))

\* parseElementFromChild that clears the list first.
parseElementFromChild_replacing(externalServices, element) ==
    AppendServices(<<>>, iterChildElements(firstChildElement(element, "services")))

\* QXmppExternalServiceDiscoveryIq::parseElementFromChild, on the IQ element.
parseElementFromChild(externalServices, element) ==
    AppendServices(externalServices, iterChildElements(firstChildElement(element, "services")))

RECURSIVE ServicesToXml(_)
ServicesToXml(externalServices) ==
    IF externalServices = <<>> THEN <<>>
    ELSE ExternalService_toXml(Head(externalServices)) \o ServicesToXml(Tail(externalServices))

\* QXmppExternalServiceDiscoveryIq::toXmlElementFromChild
toXmlElementFromChild(externalServices) ==
    writeStartElement("services")
    \o writeDefaultNamespace(ns_external_service_discovery)
    \o ServicesToXml(externalServices)
    \o writeEndElement

---------------------------------------------------------------------------
(* QXmppOmemoDeviceElement *)

\* A default-constructed QXmppOmemoDeviceElement.
QXmppOmemoDeviceElement == [m_id |-> U32Zero, m_label |-> <<>>]

setId(dev, id) == [dev EXCEPT !.m_id = id]
setLabel(dev, label) == [dev EXCEPT !.m_label = label]

\* QXmppOmemoDeviceElement::parse reading the label from a name attribute.
DeviceElement_parse_name(dev, element) ==
    [dev EXCEPT !.m_id = U32OfInt(ToInt(attribute(element, "id"))),
                !.m_label = attribute(element, "name")]

\* QXmppOmemoDeviceElement::parse
DeviceElement_parse(dev, element) ==
    [dev EXCEPT !.m_id = U32OfInt(ToInt(attribute(element, "id"))),
                !.m_label = attribute(element, "label")]

\* QXmppOmemoDeviceElement::toXml
DeviceElement_toXml(dev) ==
    writeStartElement("device")
    \o writeAttribute("id", NumberU32(dev.m_id))
    \o (IF dev.m_label # <<>> THEN writeAttribute("label", dev.m_label) ELSE <<>>)
    \o writeEndElement

isOmemoDeviceElement(element) == element.tag = "device" /\ element.ns = ns_omemo_2

---------------------------------------------------------------------------
(* QXmppOmemoDeviceList *)

RECURSIVE AppendDevices(_, _)
\* The loop of QXmppOmemoDeviceList::parse over the children els.
AppendDevices(list, els) ==
    IF els = <<>> THEN list
    ELSE AppendDevices(Append(list, DeviceElement_parse(QXmppOmemoDeviceElement, Head(els))),
                       Tail(els))

\* QXmppOmemoDeviceList::parse
DeviceList_parse(list, element) ==
    AppendDevices(list, iterChildElementsNamed(element, "device"))

RECURSIVE DevicesToXml(_)
DevicesToXml(list) ==
    IF list = <<>> THEN <<>> ELSE DeviceElement_toXml(Head(list)) \o DevicesToXml(Tail(list))

\* QXmppOmemoDeviceList::toXml without the call of writeDefaultNamespace.
DeviceList_toXml_noNamespace(list) ==
    writeStartElement("devices")
    \o DevicesToXml(list)
    \o writeEndElement

\* QXmppOmemoDeviceList::toXml
DeviceList_toXml(list) ==
    writeStartElement("devices")
    \o writeDefaultNamespace(ns_omemo_2)
    \o DevicesToXml(list)
    \o writeEndElement

isOmemoDeviceList(element) == element.tag = "devices" /\ element.ns = ns_omemo_2

---------------------------------------------------------------------------
(* QXmppOmemoDeviceBundle *)

\* QHash<uint32_t, QByteArray>: a set of <<key, value>> pairs with at most
\* one pair per key.
\* An insert that keeps the pair the key already has.
QHash_insert_keeping(hash, key, value) == hash \cup { <<key, value>> }
QHash_insert(hash, key, value) == { e \in hash : e[1] # key } \cup { <<key, value>> }
QHash_remove(hash, key) == { e \in hash : e[1] # key }
QHash_keys(hash) == { e[1] : e \in hash }

\* A default-constructed QXmppOmemoDeviceBundle.
QXmppOmemoDeviceBundle ==
    [m_publicIdentityKey |-> <<>>, m_signedPublicPreKey |-> <<>>,
     m_signedPublicPreKeyId |-> U32Zero, m_signedPublicPreKeySignature |-> <<>>,
     m_publicPreKeys |-> {}]

setPublicIdentityKey(b, key) == [b EXCEPT !.m_publicIdentityKey = key]
setSignedPublicPreKey(b, key) == [b EXCEPT !.m_signedPublicPreKey = key]
setSignedPublicPreKeyId(b, id) == [b EXCEPT !.m_signedPublicPreKeyId = id]
setSignedPublicPreKeySignature(b, signature) == [b EXCEPT !.m_signedPublicPreKeySignature = signature]

addPublicPreKey(b, id, key) == [b EXCEPT !.m_publicPreKeys = QHash_insert(@, id, key)]
removePublicPreKey(b, id) == [b EXCEPT !.m_publicPreKeys = QHash_remove(@, id)]

\* The elements the firstChildElement("pk") / nextSiblingElement("pk") loop of
\* parse visits: the children with the tag pk, in document order.
PreKeyElements(publicPreKeysElement) == SelectTag(publicPreKeysElement.children, "pk")

\* The body of that loop, over the elements it visits.
RECURSIVE InsertPreKeys(_, _)
InsertPreKeys(hash, els) ==
    IF els = <<>> THEN hash
    ELSE InsertPreKeys(QHash_insert(hash, U32OfInt(ToInt(attribute(Head(els), "id"))),
                                    FromBase64(Head(els).text)),
                       Tail(els))

\* QXmppOmemoDeviceBundle::parse
DeviceBundle_parse(b, element) ==
    LET signedPublicPreKeyElement == QDomElement_firstChildElement(element, "spk")
        publicPreKeysElement == QDomElement_firstChildElement(element, "prekeys")
        b1 == [b EXCEPT !.m_publicIdentityKey = FromBase64(QDomElement_firstChildElement(element, "ik").text)]
        b2 == IF ~isNull(signedPublicPreKeyElement)
              THEN [b1 EXCEPT !.m_signedPublicPreKeyId =
                                  U32OfInt(ToInt(attribute(signedPublicPreKeyElement, "id"))),
                              !.m_signedPublicPreKey = FromBase64(signedPublicPreKeyElement.text)]
              ELSE b1
        b3 == [b2 EXCEPT !.m_signedPublicPreKeySignature =
                             FromBase64(QDomElement_firstChildElement(element, "spks").text)]
    IN  IF ~isNull(publicPreKeysElement)
        THEN [b3 EXCEPT !.m_publicPreKeys =
                            InsertPreKeys(@, PreKeyElements(publicPreKeysElement))]
        ELSE b3

RECURSIVE PreKeysToXml_unclosed(_)
\* The loop of toXml without the writeEndElement that closes a pk.
PreKeysToXml_unclosed(entries) ==
    IF entries = <<>> THEN <<>>
    ELSE writeStartElement("pk")
         \o writeAttribute("id", NumberU32(Head(entries)[1]))
         \o writeCharacters(ToBase64(Head(entries)[2]))
         \o PreKeysToXml_unclosed(Tail(entries))

RECURSIVE PreKeysToXml(_)
\* The loop of toXml over the pre-keys, in the order the QHash iterates.
PreKeysToXml(entries) ==
    IF entries = <<>> THEN <<>>
    ELSE writeStartElement("pk")
         \o writeAttribute("id", NumberU32(Head(entries)[1]))
         \o writeCharacters(ToBase64(Head(entries)[2]))
         \o writeEndElement
         \o PreKeysToXml(Tail(entries))

\* QXmppOmemoDeviceBundle::toXml; entries is m_publicPreKeys in the order
\* its iterator visits it.
DeviceBundle_toXml(b, entries) ==
    writeStartElement("bundle")
    \o writeDefaultNamespace(ns_omemo_2)
    \o writeStartElement("ik")
    \o writeCharacters(ToBase64(b.m_publicIdentityKey))
    \o writeEndElement
    \o writeStartElement("spk")
    \o writeAttribute("id", NumberU32(b.m_signedPublicPreKeyId))
    \o writeCharacters(ToBase64(b.m_signedPublicPreKey))
    \o writeEndElement
    \o writeStartElement("spks")
    \o writeCharacters(ToBase64(b.m_signedPublicPreKeySignature))
    \o writeEndElement
    \o writeStartElement("prekeys")
    \o PreKeysToXml(entries)
    \o writeEndElement
    \o writeEndElement

\* The orders in which a QHash's iterator may visit its entries.
QHash_iterations(hash) == { [i \in 1..Cardinality(hash) |-> p[i]] : p \in Orderings(hash) }

isOmemoDeviceBundle(element) == element.tag = "bundle" /\ element.ns = ns_omemo_2

---------------------------------------------------------------------------
(* QXmppOmemoIq *)

\* QXmppOmemoElement::isOmemoElement
isOmemoElement(element) == element.tag = "encrypted" /\ element.ns = ns_omemo_2

\* isOmemoIq looking for an OMEMO element among all the children.
isOmemoIq_anyChild(element) ==
    \E i \in 1..Len(element.children) : isOmemoElement(element.children[i])

isOmemoIq(element) ==
    LET child == firstChild(element)
    IN  ~isNull(child) /\ isOmemoElement(child)

---------------------------------------------------------------------------
(* Inputs: the values the setters are called with and the elements the      *)
(* parses are handed                                                        *)

HostValues == { <<>>, <<"h">> }
TypeValues == { <<>>, <<"t">> }
StringValues == { <<>>, <<"s">> }
PortValues == { 0, 3478, -1 }
DateTimeValues == { InvalidDateTime, DateTime(2023, 1, 31, 23, 59, 7, 45) }
Optional(S) == { None } \cup { Some(v) : v \in S }

\* A service with every field set.
FullService ==
    [host |-> <<"h">>, type |-> <<"t">>, action |-> Some("Delete"),
     expires |-> Some(DateTime(2023, 1, 31, 23, 59, 7, 45)), name |-> Some(<<"s">>),
     password |-> Some(<<"s">>), port |-> Some(3478), restricted |-> Some(TRUE),
     transport |-> Some("Tcp"), username |-> Some(<<"s">>)]

\* No attribute, or the attribute name with one of the values vals.
AttrOpt(name, vals) == { <<>> } \cup { << <<name, v>> >> : v \in vals }

T_bogus == <<"x">>
T_3478 == <<"3", "4", "7", "8">>
T_expires == ToStringISODateWithMs(DateTime(2024, 2, 29, 0, 0, 0, 0))

\* The service elements handed to QXmppExternalService::parse.
ServiceElements ==
    { Element("service", ns_external_service_discovery,
              h \o t \o a \o e \o n \o pw \o po \o r \o tr \o u, <<>>, <<>>) :
        h \in AttrOpt("host", { <<"h">> }),
        t \in { << <<"type", v>> >> : v \in { <<>>, <<"t">> } },
        a \in AttrOpt("action", { <<>>, T_add, T_bogus }),
        e \in AttrOpt("expires", { T_expires, T_bogus }),
        n \in AttrOpt("name", { <<>>, <<"n">> }),
        pw \in AttrOpt("password", { <<"p">> }),
        po \in AttrOpt("port", { T_3478, T_bogus }),
        r \in AttrOpt("restricted", { T_true, T_1, T_false, <<>>, <<"T", "r", "u", "e">> }),
        tr \in AttrOpt("transport", { <<>>, T_udp, T_bogus }),
        u \in AttrOpt("username", { <<"u">> }) }

\* The children of a services element: two that isExternalService accepts
\* and three it rejects (another tag, no host, an empty type).
ServiceChildren ==
    { Element("service", ns_external_service_discovery,
              << <<"host", <<"h">> >>, <<"type", <<"t">> >>, <<"port", T_3478>>,
                 <<"transport", T_udp>> >>, <<>>, <<>>),
      Element("service", ns_external_service_discovery,
              << <<"host", <<"g">> >>, <<"type", <<"t">> >> >>, <<>>, <<>>),
      Element("item", ns_external_service_discovery,
              << <<"host", <<"h">> >>, <<"type", <<"t">> >> >>, <<>>, <<>>),
      Element("service", ns_external_service_discovery,
              << <<"type", <<"t">> >> >>, <<>>, <<>>),
      Element("service", ns_external_service_discovery,
              << <<"host", <<"h">> >>, <<"type", <<>> >> >>, <<>>, <<>>) }

\* The IQ elements handed to parseElementFromChild: an iq with one services
\* child, or with none.
IqElements ==
    { Element("iq", "jabber:client", <<>>, << Element("services", ns_external_service_discovery,
                                                     <<>>, cs, <<>>) >>, <<>>) :
        cs \in SeqsUpTo(ServiceChildren, MaxChildren) }
    \cup { Element("iq", "jabber:client", <<>>, <<>>, <<>>) }

\* The services addExternalService is called with.
ServiceValues == { FullService }

\* The ids setId, setSignedPublicPreKeyId and addPublicPreKey are called with.
IdValues == { U32Zero, U32OfNat(1), U32OfNat(2), U32OfInt(INT32_MAX), U32(65535, 65535) }
LabelValues == { <<>>, <<"l">> }
\* Key material, of every length modulo 3
KeyValues == { <<77, 97, 110>>, <<77, 97, 110, 5>> }
PreKeyValues == { <<1>>, <<255, 16>> }
PreKeyIds == { U32OfNat(1), U32OfNat(2) }
SignedPreKeyIds == { U32OfNat(1), U32OfInt(INT32_MAX), U32(65535, 65535) }

\* The texts of an id attribute: empty, not a number, negative, zero, in
\* range, INT32_MAX, INT32_MAX + 1.
IdTexts ==
    { <<>>, <<"x">>, <<"-", "1">>, <<"0">>, <<"1">>, <<"2">>, NumberInt(INT32_MAX),
      NumberU32(U32(32768, 0)) }

\* The device elements handed to QXmppOmemoDeviceElement::parse.
DeviceElements ==
    { Element("device", ns, i \o l, <<>>, <<>>) :
        ns \in { ns_omemo_2, ns_other },
        i \in AttrOpt("id", IdTexts),
        l \in AttrOpt("label", LabelValues) }

\* The children of a devices element: two that isOmemoDeviceElement accepts
\* and two it rejects (a device of another namespace, another tag).
DeviceChildren ==
    { Element("device", ns_omemo_2, << <<"id", <<"1">> >> >>, <<>>, <<>>),
      Element("device", ns_omemo_2, << <<"id", <<"2">> >>, <<"label", <<"l">> >> >>, <<>>, <<>>),
      Element("device", ns_other, << <<"id", <<"3">> >> >>, <<>>, <<>>),
      Element("item", ns_omemo_2, << <<"id", <<"4">> >> >>, <<>>, <<>>) }

\* The devices elements handed to QXmppOmemoDeviceList::parse.
DeviceListElements ==
    { Element("devices", ns_omemo_2, <<>>, cs, <<>>) : cs \in SeqsUpTo(DeviceChildren, MaxChildren) }

\* The devices a list is built from.
DeviceValues ==
    { [m_id |-> U32Zero, m_label |-> <<>>], [m_id |-> U32OfNat(1), m_label |-> <<"l">>],
      [m_id |-> U32OfInt(INT32_MAX), m_label |-> <<>>],
      [m_id |-> U32(65535, 65535), m_label |-> <<"l">>] }

\* The pk children of a prekeys element: ids 1, 2 and -1, and id 1 again with
\* another key.
PreKeyChildren ==
    { Element("pk", ns_omemo_2, << <<"id", i>> >>, <<>>, ToBase64(<<1>>)) :
        i \in { <<"1">>, <<"2">>, <<"-", "1">> } }
    \cup { Element("pk", ns_omemo_2, << <<"id", <<"1">> >> >>, <<>>, ToBase64(<<255, 16>>)) }

\* The bundle element with the children ik, spk (with the id text id), spks
\* and a prekeys container with the children pks.
BundleElement(id, pks) ==
    Element("bundle", ns_omemo_2, <<>>,
            << Element("ik", ns_omemo_2, <<>>, <<>>, ToBase64(<<77, 97, 110, 5>>)),
               Element("spk", ns_omemo_2, << <<"id", id>> >>, <<>>, ToBase64(<<255, 16>>)),
               Element("spks", ns_omemo_2, <<>>, <<>>, <<"!", "A", "Q", "=", "=">>),
               Element("prekeys", ns_omemo_2, <<>>, pks, <<>>) >>, <<>>)

\* The bundle elements handed to QXmppOmemoDeviceBundle::parse: one with no
\* child at all, one without spk and prekeys, complete ones with every id
\* text on the signed pre-key, and complete ones with every sequence of pk
\* children.
BundleElements ==
    { Element("bundle", ns_omemo_2, <<>>, <<>>, <<>>),
      Element("bundle", ns_omemo_2, <<>>,
              << Element("ik", ns_omemo_2, <<>>, <<>>, ToBase64(<<1>>)),
                 Element("spks", ns_omemo_2, <<>>, <<>>, ToBase64(<<1>>)) >>, <<>>) }
    \cup { BundleElement(i, <<>>) : i \in IdTexts }
    \cup { BundleElement(<<"7">>, cs) : cs \in SeqsUpTo(PreKeyChildren, MaxPreKeys) }

\* The children of the elements handed to QXmppOmemoIq::isOmemoIq.
OmemoIqChildren ==
    { Element(tag, ns, <<>>, <<>>, <<>>) : tag \in { "encrypted", "payload" },
                                           ns \in { ns_omemo_2, ns_other } }
OmemoIqElements ==
    { Element("iq", "jabber:client", <<>>, cs, <<>>) : cs \in SeqsUpTo(OmemoIqChildren, MaxChildren) }

---------------------------------------------------------------------------
(* State *)

VARIABLES
    target,            \* the object this run works on
    pc,                \* how far the run is
    service,           \* a QXmppExternalService: its d-> fields
    externalServices,  \* a QXmppExternalServiceDiscoveryIq: d->externalServices
    device,            \* a QXmppOmemoDeviceElement
    deviceList,        \* a QXmppOmemoDeviceList
    bundle,            \* a QXmppOmemoDeviceBundle
    edits,             \* addPublicPreKey / removePublicPreKey calls made
    lastAdd,           \* history: per pre-key id, the key of its last add, or
                       \* nullopt when the id was removed after it
    input,             \* the element handed to the last parse or recognizer
    before,            \* the object as it was when the last parse was called
    writer,            \* the sink calls of the last toXml
    reread,            \* a fresh object after parsing what writer was given
    recognized         \* the recognizer's answer for input

vars == <<target, pc, service, externalServices, device, deviceList, bundle, edits, lastAdd,
          input, before, writer, reread, recognized>>

ServiceTargets == { "service" }
ParseTargets == { "serviceParse", "iq" }
OmemoTargets == { "device", "deviceList", "bundle", "omemoIq" }

InitFor(targets) ==
    /\ target \in targets
    /\ pc = "build"
    /\ service \in (IF target = "serviceParse"
                    THEN { QXmppExternalServicePrivate, FullService }
                    ELSE { QXmppExternalServicePrivate })
    /\ externalServices = <<>>
    /\ device = QXmppOmemoDeviceElement
    /\ deviceList = <<>>
    /\ bundle = QXmppOmemoDeviceBundle
    /\ edits = 0
    /\ lastAdd = <<>>
    /\ input = NullElement
    /\ before = <<>>
    /\ writer = <<>>
    /\ reread = <<>>
    /\ recognized = FALSE

---------------------------------------------------------------------------
(* QXmppExternalService: setters, toXml, and a parse of what toXml wrote *)

ServiceSet(d) ==
    /\ target = "service" /\ pc = "build"
    /\ service' = d
    /\ UNCHANGED <<target, pc, externalServices, device, deviceList, bundle, edits, lastAdd,
                   input, before, writer, reread, recognized>>

Service_setHost == \E v \in HostValues : ServiceSet(setHost(service, v))
Service_setType == \E v \in TypeValues : ServiceSet(setType(service, v))
Service_setAction == \E v \in Optional(Actions) : ServiceSet(setAction(service, v))
Service_setExpires == \E v \in Optional(DateTimeValues) : ServiceSet(setExpires(service, v))
Service_setName == \E v \in Optional(StringValues) : ServiceSet(setName(service, v))
Service_setPassword == \E v \in Optional(StringValues) : ServiceSet(setPassword(service, v))
Service_setPort == \E v \in Optional(PortValues) : ServiceSet(setPort(service, v))
Service_setRestricted == \E v \in Optional(BOOLEAN) : ServiceSet(setRestricted(service, v))
Service_setTransport == \E v \in Optional(Transports) : ServiceSet(setTransport(service, v))
Service_setUsername == \E v \in Optional(StringValues) : ServiceSet(setUsername(service, v))

Service_toXml ==
    /\ target = "service" /\ pc = "build"
    /\ writer' = ExternalService_toXml(service)
    /\ pc' = "written"
    /\ UNCHANGED <<target, service, externalServices, device, deviceList, bundle, edits, lastAdd,
                   input, before, reread, recognized>>

\* A reader of the written element: the recognizer, then parse on a fresh
\* QXmppExternalService.
Service_reparse ==
    /\ target = "service" /\ pc = "written"
    /\ recognized' = isExternalService(Head(Written(writer)))
    /\ reread' = ExternalService_parse(QXmppExternalServicePrivate, Head(Written(writer)))
    /\ pc' = "reread"
    /\ UNCHANGED <<target, service, externalServices, device, deviceList, bundle, edits, lastAdd,
                   input, before, writer>>

---------------------------------------------------------------------------
(* QXmppExternalService::parse of an element from the wire, and              *)
(* QXmppExternalServiceDiscoveryIq                                           *)

Service_parse ==
    /\ target = "serviceParse" /\ pc = "build"
    /\ \E el \in ServiceElements :
        /\ input' = el
        /\ recognized' = isExternalService(el)
        /\ service' = ExternalService_parse(service, el)
    /\ before' = service
    /\ pc' = "parsed"
    /\ UNCHANGED <<target, externalServices, device, deviceList, bundle, edits, lastAdd, writer, reread>>

\* addExternalService, before a parse or between two.
Iq_addExternalService ==
    /\ target = "iq" /\ pc \in { "build", "parsed", "added" }
    /\ edits < MaxEdits
    /\ \E v \in ServiceValues : externalServices' = addExternalService(externalServices, v)
    /\ edits' = edits + 1
    /\ pc' = IF pc = "build" THEN "build" ELSE "added"
    /\ UNCHANGED <<target, service, device, deviceList, bundle, lastAdd, input, before, writer,
                   reread, recognized>>

\* parseElementFromChild; a second call is handed the same element again.
Iq_parseElementFromChild ==
    /\ target = "iq" /\ pc \in { "build", "parsed", "added" }
    /\ \E el \in (IF pc = "build" THEN IqElements ELSE { input }) :
        /\ input' = el
        /\ externalServices' = parseElementFromChild(externalServices, el)
    /\ before' = externalServices
    /\ pc' = IF pc = "build" THEN "parsed" ELSE "parsed2"
    /\ UNCHANGED <<target, service, device, deviceList, bundle, edits, lastAdd, writer, reread,
                   recognized>>

Iq_toXml ==
    /\ target = "iq" /\ pc \in { "build", "parsed", "added", "parsed2" }
    /\ writer' = toXmlElementFromChild(externalServices)
    /\ pc' = "written"
    /\ UNCHANGED <<target, service, externalServices, device, deviceList, bundle, edits, lastAdd,
                   input, before, reread, recognized>>

---------------------------------------------------------------------------
(* QXmppOmemoDeviceElement *)

DeviceSet(dev) ==
    /\ target = "device" /\ pc = "build"
    /\ device' = dev
    /\ UNCHANGED <<target, pc, service, externalServices, deviceList, bundle, edits, lastAdd,
                   input, before, writer, reread, recognized>>

Device_setId == \E v \in IdValues : DeviceSet(setId(device, v))
Device_setLabel == \E v \in LabelValues : DeviceSet(setLabel(device, v))

Device_parse ==
    /\ target = "device" /\ pc = "build"
    /\ \E el \in DeviceElements :
        /\ input' = el
        /\ recognized' = isOmemoDeviceElement(el)
        /\ device' = DeviceElement_parse(device, el)
    /\ before' = device
    /\ pc' = "parsed"
    /\ UNCHANGED <<target, service, externalServices, deviceList, bundle, edits, lastAdd, writer, reread>>

Device_toXml ==
    /\ target = "device" /\ pc \in { "build", "parsed" }
    /\ writer' = DeviceElement_toXml(device)
    /\ pc' = "written"
    /\ UNCHANGED <<target, service, externalServices, device, deviceList, bundle, edits, lastAdd,
                   input, before, reread, recognized>>

Device_reparse ==
    /\ target = "device" /\ pc = "written"
    /\ recognized' = isOmemoDeviceElement(Head(Written(writer)))
    /\ reread' = DeviceElement_parse(QXmppOmemoDeviceElement, Head(Written(writer)))
    /\ pc' = "reread"
    /\ UNCHANGED <<target, service, externalServices, device, deviceList, bundle, edits, lastAdd,
                   input, before, writer>>

---------------------------------------------------------------------------
(* QXmppOmemoDeviceList *)

\* QList::append on the list
List_append ==
    /\ target = "deviceList" /\ pc = "build"
    /\ Len(deviceList) < MaxAppends
    /\ \E v \in DeviceValues : deviceList' = Append(deviceList, v)
    /\ edits' = edits + 1
    /\ UNCHANGED <<target, pc, service, externalServices, device, bundle, lastAdd,
                   input, before, writer, reread, recognized>>

\* parse, on a list at most one device was appended to; a second call is
\* handed the same element again.
List_parse ==
    /\ target = "deviceList" /\ pc \in { "build", "parsed" }
    /\ pc = "build" => Len(deviceList) <= 1
    /\ \E el \in (IF pc = "build" THEN DeviceListElements ELSE { input }) :
        /\ input' = el
        /\ deviceList' = DeviceList_parse(deviceList, el)
    /\ before' = deviceList
    /\ pc' = IF pc = "build" THEN "parsed" ELSE "parsed2"
    /\ UNCHANGED <<target, service, externalServices, device, bundle, edits, lastAdd, writer, reread,
                   recognized>>

List_toXml ==
    /\ target = "deviceList" /\ pc \in { "build", "parsed", "parsed2" }
    /\ writer' = DeviceList_toXml(deviceList)
    /\ pc' = "written"
    /\ UNCHANGED <<target, service, externalServices, device, deviceList, bundle, edits, lastAdd,
                   input, before, reread, recognized>>

List_reparse ==
    /\ target = "deviceList" /\ pc = "written"
    /\ recognized' = isOmemoDeviceList(Head(Written(writer)))
    /\ reread' = DeviceList_parse(<<>>, Head(Written(writer)))
    /\ pc' = "reread"
    /\ UNCHANGED <<target, service, externalServices, device, deviceList, bundle, edits, lastAdd,
                   input, before, writer>>

---------------------------------------------------------------------------
(* QXmppOmemoDeviceBundle *)

BundleSet(b) ==
    /\ target = "bundle" /\ pc = "build"
    /\ bundle' = b
    /\ UNCHANGED <<target, pc, service, externalServices, device, deviceList, edits, lastAdd,
                   input, before, writer, reread, recognized>>

Bundle_setPublicIdentityKey == \E v \in KeyValues : BundleSet(setPublicIdentityKey(bundle, v))
Bundle_setSignedPublicPreKey == \E v \in PreKeyValues : BundleSet(setSignedPublicPreKey(bundle, v))
Bundle_setSignedPublicPreKeyId ==
    \E v \in SignedPreKeyIds : BundleSet(setSignedPublicPreKeyId(bundle, v))
Bundle_setSignedPublicPreKeySignature ==
    \E v \in { <<1>> } : BundleSet(setSignedPublicPreKeySignature(bundle, v))

\* The history of the pre-key ids after the pk elements els were inserted in
\* document order: each id has the key of the last element that carries it.
LastAddAfterParse(els) ==
    LET idOf(e) == U32OfInt(ToInt(attribute(e, "id")))
        ids == { idOf(els[i]) : i \in 1..Len(els) }
        last(id) == CHOOSE i \in 1..Len(els) :
                        /\ idOf(els[i]) = id
                        /\ \A j \in (i + 1)..Len(els) : idOf(els[j]) # id
    IN  [id \in ids |-> Some(FromBase64(els[last(id)].text))]

\* parse, on a bundle nothing has been done to yet.
Bundle_parse ==
    /\ target = "bundle" /\ pc = "build"
    /\ bundle = QXmppOmemoDeviceBundle /\ edits = 0
    /\ \E el \in BundleElements :
        /\ input' = el
        /\ recognized' = isOmemoDeviceBundle(el)
        /\ bundle' = DeviceBundle_parse(bundle, el)
        /\ lastAdd' = LastAddAfterParse(
                          PreKeyElements(QDomElement_firstChildElement(el, "prekeys")))
    /\ before' = bundle
    /\ pc' = "parsed"
    /\ UNCHANGED <<target, service, externalServices, device, deviceList, edits, writer, reread>>

BundleEdit(b, h) ==
    /\ target = "bundle" /\ pc \in { "build", "parsed" }
    /\ edits < MaxEdits
    /\ bundle' = b
    /\ lastAdd' = h
    /\ edits' = edits + 1
    /\ UNCHANGED <<target, pc, service, externalServices, device, deviceList,
                   input, before, writer, reread, recognized>>

Bundle_addPublicPreKey ==
    \E id \in PreKeyIds, key \in PreKeyValues :
        BundleEdit(addPublicPreKey(bundle, id, key),
                   [i \in DOMAIN lastAdd \cup { id } |-> IF i = id THEN Some(key) ELSE lastAdd[i]])
Bundle_removePublicPreKey ==
    \E id \in PreKeyIds :
        BundleEdit(removePublicPreKey(bundle, id),
                   [i \in DOMAIN lastAdd \cup { id } |-> IF i = id THEN None ELSE lastAdd[i]])

\* toXml; the QHash's iterator visits the pre-keys in an order of its own.
Bundle_toXml ==
    /\ target = "bundle" /\ pc \in { "build", "parsed" }
    /\ \E entries \in QHash_iterations(bundle.m_publicPreKeys) :
        writer' = DeviceBundle_toXml(bundle, entries)
    /\ pc' = "written"
    /\ UNCHANGED <<target, service, externalServices, device, deviceList, bundle, edits, lastAdd,
                   input, before, reread, recognized>>

Bundle_reparse ==
    /\ target = "bundle" /\ pc = "written"
    /\ recognized' = isOmemoDeviceBundle(Head(Written(writer)))
    /\ reread' = DeviceBundle_parse(QXmppOmemoDeviceBundle, Head(Written(writer)))
    /\ pc' = "reread"
    /\ UNCHANGED <<target, service, externalServices, device, deviceList, bundle, edits, lastAdd,
                   input, before, writer>>

---------------------------------------------------------------------------
(* QXmppOmemoIq *)

OmemoIq_isOmemoIq ==
    /\ target = "omemoIq" /\ pc = "build"
    /\ \E el \in OmemoIqElements :
        /\ input' = el
        /\ recognized' = isOmemoIq(el)
    /\ pc' = "recognized"
    /\ UNCHANGED <<target, service, externalServices, device, deviceList, bundle, edits, lastAdd,
                   before, writer, reread>>

---------------------------------------------------------------------------
(* Specifications *)

NextService ==
    \/ Service_setHost \/ Service_setType \/ Service_setAction \/ Service_setExpires
    \/ Service_setName \/ Service_setPassword \/ Service_setPort \/ Service_setRestricted
    \/ Service_setTransport \/ Service_setUsername
    \/ Service_toXml \/ Service_reparse

NextParse ==
    \/ Service_parse
    \/ Iq_addExternalService \/ Iq_parseElementFromChild \/ Iq_toXml

NextOmemo ==
    \/ Device_setId \/ Device_setLabel \/ Device_parse \/ Device_toXml \/ Device_reparse
    \/ List_append \/ List_parse \/ List_toXml \/ List_reparse
    \/ Bundle_setPublicIdentityKey \/ Bundle_setSignedPublicPreKey
    \/ Bundle_setSignedPublicPreKeyId \/ Bundle_setSignedPublicPreKeySignature
    \/ Bundle_parse \/ Bundle_addPublicPreKey \/ Bundle_removePublicPreKey
    \/ Bundle_toXml \/ Bundle_reparse
    \/ OmemoIq_isOmemoIq

Init == InitFor(ServiceTargets \cup ParseTargets \cup OmemoTargets)
Next == NextService \/ NextParse \/ NextOmemo
Spec == Init /\ [][Next]_vars

\* One QXmppExternalService, set up by its setters, written and read back.
InitService == InitFor(ServiceTargets)
SpecService == InitService /\ [][NextService]_vars

\* Elements from the wire parsed by QXmppExternalService and by the IQ.
InitParse == InitFor(ParseTargets)
SpecParse == InitParse /\ [][NextParse]_vars

\* The OMEMO device element, device list, bundle and IQ.
InitOmemo == InitFor(OmemoTargets)
SpecOmemo == InitOmemo /\ [][NextOmemo]_vars

---------------------------------------------------------------------------
(* Claims *)

OptionalFields ==
    { "action", "expires", "name", "password", "port", "restricted", "transport", "username" }

\* C1: an ExternalService with non-empty host and type, whatever optional
\* fields are set (a set string may be empty), is equal field for field,
\* set and unset fields alike, to a fresh ExternalService that parsed the
\* element toXml wrote for it.
C1_ServiceRoundTrip ==
    (target = "service" /\ pc = "reread" /\ service.host # <<>> /\ service.type # <<>>)
        => reread = service

\* A service with an empty name, an invalid expiry, a negative port and the
\* other optional fields unset has been written and read back.
C1_Witness ==
    /\ target = "service" /\ pc = "reread"
    /\ service.host # <<>> /\ service.type # <<>>
    /\ service.name = Some(<<>>) /\ service.expires = Some(InvalidDateTime)
    /\ service.port = Some(-1) /\ service.action = Some("Modify")
    /\ service.username = None /\ service.restricted = None
    /\ reread = service

\* C7: the service element toXml writes carries host and type always, one
\* attribute with the field's text for every optional field that is set,
\* and no attribute for an optional field that is unset.
C7_AttributePresence ==
    (target = "service" /\ pc \in { "written", "reread" }) =>
        LET el == Head(Written(writer))
        IN  /\ Len(Written(writer)) = 1
            /\ el.tag = "service"
            /\ AttributeNames(el) = { "host", "type" }
                                    \cup { f \in OptionalFields : IsSet(service[f]) }
            /\ Len(el.attrs) = Cardinality(AttributeNames(el))
            /\ attribute(el, "host") = service.host
            /\ attribute(el, "type") = service.type
            /\ IsSet(service.action) =>
                 <<Value(service.action), attribute(el, "action")>>
                     \in { <<"Add", T_add>>, <<"Delete", T_delete>>, <<"Modify", T_modify>> }
            /\ IsSet(service.expires) =>
                 attribute(el, "expires") = ToStringISODateWithMs(Value(service.expires))
            /\ IsSet(service.name) => attribute(el, "name") = Value(service.name)
            /\ IsSet(service.password) => attribute(el, "password") = Value(service.password)
            /\ IsSet(service.port) => attribute(el, "port") = NumberInt(Value(service.port))
            /\ IsSet(service.restricted) =>
                 attribute(el, "restricted") = (IF Value(service.restricted) THEN T_true ELSE T_false)
            /\ IsSet(service.transport) =>
                 <<Value(service.transport), attribute(el, "transport")>>
                     \in { <<"Tcp", T_tcp>>, <<"Udp", T_udp>> }
            /\ IsSet(service.username) => attribute(el, "username") = Value(service.username)

\* A service with only host, type, port and transport set has been written
\* with exactly those four attributes.
C7_Witness ==
    /\ target = "service" /\ pc = "written"
    /\ service = setTransport(setPort(setType(setHost(QXmppExternalServicePrivate, <<"h">>),
                                              <<"t">>), Some(3478)), Some("Udp"))
    /\ AttributeNames(Head(Written(writer))) = { "host", "type", "port", "transport" }
    /\ Len(Head(Written(writer)).attrs) = 4

\* The element el without its attribute name.
Without(el, name) == [el EXCEPT !.attrs = SelectSeq(@, LAMBDA a : a[1] # name)]

\* C6: when the action or transport attribute of the parsed element holds
\* no known token (the empty text included), parse leaves that field unset
\* and gives every field the value it would have had, had the attribute
\* been absent.
C6_EnumDegrade ==
    (target = "serviceParse" /\ pc = "parsed") =>
        /\ (contains(input, "action")
            /\ attribute(input, "action") \notin { T_add, T_delete, T_modify })
           => /\ service.action = None
              /\ service = ExternalService_parse(before, Without(input, "action"))
        /\ (contains(input, "transport") /\ attribute(input, "transport") \notin { T_tcp, T_udp })
           => /\ service.transport = None
              /\ service = ExternalService_parse(before, Without(input, "transport"))

\* A service with every field set has parsed an element with an unknown
\* action, an empty transport and a port: both enums are unset, the port is
\* read, the password the element does not carry is kept.
C6_Witness ==
    /\ target = "serviceParse" /\ pc = "parsed"
    /\ before = FullService
    /\ attribute(input, "action") = T_bogus
    /\ contains(input, "transport") /\ attribute(input, "transport") = <<>>
    /\ ~contains(input, "password")
    /\ service.action = None /\ service.transport = None
    /\ service.port = Some(3478) /\ service.password = Some(<<"s">>)

\* The children of the services element of the IQ element el.
C4_Children(el) == firstChildElement(el, "services").children
\* Tag service, and host and type present and not empty.
C4_Accepted(c) ==
    /\ c.tag = "service"
    /\ contains(c, "host") /\ attribute(c, "host") # <<>>
    /\ contains(c, "type") /\ attribute(c, "type") # <<>>

\* C4: parseElementFromChild on a fresh IQ yields one service per accepted
\* child of the services element, in document order, each the parse of its
\* element; rejected children give no entry and do not end the loop.
C4_ServiceListFilter ==
    (target = "iq" /\ pc = "parsed" /\ before = <<>>) =>
        LET cs == C4_Children(input)
            acc == { i \in 1..Len(cs) : C4_Accepted(cs[i]) }
        IN  /\ Len(externalServices) = Cardinality(acc)
            /\ \A i \in acc :
                 externalServices[Cardinality({ j \in acc : j <= i })]
                     = ExternalService_parse(QXmppExternalServicePrivate, cs[i])

\* A fresh IQ has parsed an accepted child, a rejected one and another
\* accepted one, and holds the two services in document order.
C4_Witness ==
    /\ target = "iq" /\ pc = "parsed" /\ before = <<>>
    /\ Len(C4_Children(input)) = 3
    /\ C4_Accepted(C4_Children(input)[1])
    /\ ~C4_Accepted(C4_Children(input)[2])
    /\ C4_Accepted(C4_Children(input)[3])
    /\ C4_Children(input)[1] # C4_Children(input)[3]
    /\ Len(externalServices) = 2
    /\ externalServices[1].host = attribute(C4_Children(input)[1], "host")
    /\ externalServices[2].host = attribute(C4_Children(input)[3], "host")

\* C2: a DeviceElement, DeviceList or DeviceBundle whose ids lie in
\* [0, INT32_MAX] is equal to the fresh object that parsed the element toXml
\* wrote for it: id and label, the devices in order, the keys, the signed
\* pre-key id, the signature and the pre-key mapping; a device id of 0 is
\* written as the text 0 and read back as 0.
C2_DeviceRoundTrip ==
    pc = "reread" =>
        /\ (target = "device" /\ ~U32AboveInt32Max(device.m_id)) =>
              /\ reread = device
              /\ device.m_id = U32Zero => attribute(Head(Written(writer)), "id") = <<"0">>
        /\ (target = "deviceList"
            /\ \A i \in 1..Len(deviceList) : ~U32AboveInt32Max(deviceList[i].m_id))
           => reread = deviceList
        /\ (target = "bundle"
            /\ ~U32AboveInt32Max(bundle.m_signedPublicPreKeyId)
            /\ \A id \in QHash_keys(bundle.m_publicPreKeys) : ~U32AboveInt32Max(id))
           => reread = bundle

\* A bundle with a four-byte identity key, the signed pre-key id INT32_MAX
\* and two pre-keys has been written and read back.
C2_Witness ==
    /\ target = "bundle" /\ pc = "reread"
    /\ bundle.m_publicIdentityKey = <<77, 97, 110, 5>>
    /\ bundle.m_signedPublicPreKey = <<255, 16>>
    /\ bundle.m_signedPublicPreKeySignature = <<1>>
    /\ bundle.m_signedPublicPreKeyId = U32OfInt(INT32_MAX)
    /\ bundle.m_publicPreKeys = { <<U32OfNat(1), <<1>> >>, <<U32OfNat(2), <<255, 16>> >> }
    /\ reread = bundle

\* C5 (as claimed): QXmppOmemoDeviceList::parse on a fresh list yields one
\* entry per child that isOmemoDeviceElement accepts, in document order,
\* and none for a child it rejects.
C5_DeviceListFilter ==
    (target = "deviceList" /\ pc = "parsed" /\ before = <<>>) =>
        LET cs == input.children
            acc == { i \in 1..Len(cs) : isOmemoDeviceElement(cs[i]) }
        IN  /\ Len(deviceList) = Cardinality(acc)
            /\ \A i \in acc :
                 deviceList[Cardinality({ j \in acc : j <= i })]
                     = DeviceElement_parse(QXmppOmemoDeviceElement, cs[i])

\* C8 (as claimed): isOmemoIq answers true only for an element with exactly
\* one child element, that child being an OMEMO element.
C8_ExactlyOneChild ==
    (target = "omemoIq" /\ pc = "recognized" /\ recognized) =>
        /\ Len(input.children) = 1
        /\ isOmemoElement(input.children[1])

\* C8 (amended): isOmemoIq answers true exactly when the element has a
\* child element and its first child element is an OMEMO element; further
\* children do not matter.
C8_FirstChild ==
    (target = "omemoIq" /\ pc = "recognized") =>
        recognized = (/\ Len(input.children) >= 1
                      /\ input.children[1].tag = "encrypted"
                      /\ input.children[1].ns = ns_omemo_2)

\* An element whose first child is an OMEMO element and whose second is not
\* has been recognized.
C8_Witness ==
    /\ target = "omemoIq" /\ pc = "recognized"
    /\ Len(input.children) = 2
    /\ isOmemoElement(input.children[1]) /\ ~isOmemoElement(input.children[2])
    /\ recognized

\* The pk children of the prekeys container of the written bundle.
C10_Written == QDomElement_firstChildElement(Head(Written(writer)), "prekeys").children

\* C10: whatever parse, addPublicPreKey and removePublicPreKey calls were
\* made, the prekeys container toXml writes has exactly one pk child per id
\* whose last call was an add, with the key of that add, and no other child.
C10_PreKeyMap ==
    (target = "bundle" /\ pc \in { "written", "reread" }) =>
        LET pks == C10_Written
            live == { id \in DOMAIN lastAdd : IsSet(lastAdd[id]) }
        IN  /\ Len(pks) = Cardinality(live)
            /\ \A id \in live :
                 /\ Cardinality({ i \in 1..Len(pks) : attribute(pks[i], "id") = NumberU32(id) }) = 1
                 /\ \A i \in 1..Len(pks) :
                      attribute(pks[i], "id") = NumberU32(id)
                          => pks[i].tag = "pk" /\ pks[i].text = ToBase64(Value(lastAdd[id]))

\* A bundle that parsed pre-keys 1 and 2 and then had pre-key 1 removed has
\* been written with the single pk child 2.
C10_Witness ==
    /\ target = "bundle" /\ pc = "written" /\ ~isNull(input)
    /\ LET cs == PreKeyElements(QDomElement_firstChildElement(input, "prekeys"))
       IN  /\ Len(cs) = 2
           /\ attribute(cs[1], "id") = <<"1">>
           /\ attribute(cs[2], "id") = <<"2">>
    /\ edits = 1
    /\ QHash_keys(bundle.m_publicPreKeys) = { U32OfNat(2) }
    /\ Len(C10_Written) = 1
    /\ attribute(C10_Written[1], "id") = <<"2">>

\* C3 (as claimed): the element toXml writes for any ExternalService,
\* DeviceElement, DeviceList or DeviceBundle is accepted by the recognizer
\* of its type.
C3_OwnOutputAccepted ==
    pc = "reread" => recognized

\* C3 (amended): the element toXml writes is accepted by the type's
\* recognizer for every DeviceList and DeviceBundle, and for an
\* ExternalService exactly when its host and type are not empty; the device
\* element a DeviceElement writes on its own is in no namespace and is
\* rejected, while the device elements DeviceList::toXml writes inside its
\* devices element are accepted.
C3_OwnOutputRecognized ==
    pc = "reread" =>
        /\ target = "service" => recognized = (service.host # <<>> /\ service.type # <<>>)
        /\ target = "device" => ~recognized
        /\ target = "deviceList" =>
              /\ recognized
              /\ Len(Head(Written(writer)).children) = Len(deviceList)
              /\ \A i \in 1..Len(deviceList) :
                    isOmemoDeviceElement(Head(Written(writer)).children[i])
        /\ target = "bundle" => recognized

\* A list of two devices has been written; the devices element and both
\* device children are accepted.
C3_Witness ==
    /\ target = "deviceList" /\ pc = "reread"
    /\ Len(deviceList) = 2
    /\ recognized
    /\ isOmemoDeviceList(Head(Written(writer)))
    /\ \A i \in 1..2 : isOmemoDeviceElement(Head(Written(writer)).children[i])

RECURSIVE C9_Nested(_, _, _)
\* The sink calls evs from the i-th on, made at depth depth, open one element
\* first, keep it open until the last call, which closes it, and never close
\* an element that was not opened.
C9_Nested(evs, i, depth) ==
    IF i > Len(evs) THEN depth = 0 /\ evs # <<>>
    ELSE CASE evs[i].op = "start" ->
                /\ i = 1 \/ depth > 0
                /\ C9_Nested(evs, i + 1, depth + 1)
           [] evs[i].op = "end" ->
                /\ depth > 0
                /\ depth > 1 \/ i = Len(evs)
                /\ C9_Nested(evs, i + 1, depth - 1)
           [] OTHER ->
                /\ depth > 0
                /\ C9_Nested(evs, i + 1, depth)

\* C9: the sink calls of every toXml (service, services list, device,
\* device list, bundle) open exactly one top-level element, never close more
\* elements than they opened, and end at the depth they started at.
C9_SinkNesting ==
    pc \in { "written", "reread" } =>
        /\ C9_Nested(writer, 1, 0)
        /\ Depth(writer) = 0
        /\ Len(Written(writer)) = 1

\* A bundle without pre-keys has been written: five elements, all closed.
C9_Witness ==
    /\ target = "bundle" /\ pc = "written"
    /\ bundle.m_publicPreKeys = {}
    /\ Cardinality({ i \in 1..Len(writer) : writer[i].op = "start" }) = 5
    /\ Cardinality({ i \in 1..Len(writer) : writer[i].op = "end" }) = 5
    /\ Len(Head(Written(writer)).children) = 4

\* C11: parse sets restricted to true exactly when the attribute is present
\* with the text true or 1, to false when it is present with any other text
\* (the empty text included), and does not touch it when the attribute is
\* absent, so that it is unset on a fresh object; toXml writes a set value
\* as true or false, and a fresh object that parses what was written holds
\* the same set value.
C11_RestrictedCodec ==
    /\ (target = "serviceParse" /\ pc = "parsed") =>
          IF contains(input, "restricted")
          THEN service.restricted
                   = Some(attribute(input, "restricted") \in { <<"t", "r", "u", "e">>, <<"1">> })
          ELSE /\ service.restricted = before.restricted
               /\ before = QXmppExternalServicePrivate => service.restricted = None
    /\ (target = "service" /\ pc \in { "written", "reread" } /\ IsSet(service.restricted)) =>
          /\ attribute(Head(Written(writer)), "restricted")
                 = (IF Value(service.restricted) THEN <<"t", "r", "u", "e">>
                                                 ELSE <<"f", "a", "l", "s", "e">>)
          /\ pc = "reread" => reread.restricted = service.restricted

\* A service whose restricted was true has parsed an element with an empty
\* restricted attribute and now holds false.
C11_Witness ==
    /\ target = "serviceParse" /\ pc = "parsed"
    /\ before = FullService
    /\ contains(input, "restricted") /\ attribute(input, "restricted") = <<>>
    /\ service.restricted = Some(FALSE)

\* A service with restricted false has been written and read back.
C11_WitnessRoundTrip ==
    /\ target = "service" /\ pc = "reread"
    /\ service.restricted = Some(FALSE)
    /\ attribute(Head(Written(writer)), "restricted") = <<"f", "a", "l", "s", "e">>
    /\ reread.restricted = Some(FALSE)

\* The text is a decimal number in [1, INT32_MAX].
C12_InRange(text) ==
    /\ text # <<>>
    /\ \A i \in 1..Len(text) : IsDigit(text[i])
    /\ DigitsValue(text, 0) >= 1

\* The ids a parse has just stored, each with the text it was read from.
C12_Stored ==
    IF target = "device" THEN { <<device.m_id, attribute(input, "id")>> }
    ELSE LET spk == QDomElement_firstChildElement(input, "spk")
             pks == PreKeyElements(QDomElement_firstChildElement(input, "prekeys"))
         IN  { <<bundle.m_signedPublicPreKeyId, attribute(spk, "id")>> }
             \cup { <<U32OfInt(ToInt(attribute(pks[i], "id"))), attribute(pks[i], "id")>> :
                      i \in 1..Len(pks) }

\* C12 (as claimed): whatever the text of the id attribute, the id that
\* QXmppOmemoDeviceElement::parse stores, and the signed pre-key id and the
\* pre-key ids that QXmppOmemoDeviceBundle::parse stores, lie in
\* [0, INT32_MAX], and are 0 when the text is not a decimal number in
\* [1, INT32_MAX].
C12_IdDomain ==
    (target \in { "device", "bundle" } /\ pc = "parsed" /\ edits = 0) =>
        /\ ~U32AboveInt32Max(device.m_id)
        /\ ~U32AboveInt32Max(bundle.m_signedPublicPreKeyId)
        /\ \A id \in QHash_keys(bundle.m_publicPreKeys) : ~U32AboveInt32Max(id)
        /\ \A st \in C12_Stored : ~C12_InRange(st[2]) => st[1] = U32Zero

\* C12 (as the code behaves): a stored id is the text's value when the text
\* is a decimal number in [1, INT32_MAX], the value plus 2^32 when the text
\* is a negative decimal number that fits an int, and 0 otherwise; only a
\* negative text gives an id above INT32_MAX.
C12_IdOfText ==
    (target \in { "device", "bundle" } /\ pc = "parsed" /\ edits = 0) =>
        /\ \A id \in QHash_keys(bundle.m_publicPreKeys) : \E st \in C12_Stored : st[1] = id
        /\ \A st \in C12_Stored :
             LET text == st[2]
                 negative == Len(text) > 1 /\ Head(text) = "-" /\ C12_InRange(Tail(text))
             IN  /\ C12_InRange(text) => NumberU32(st[1]) = text
                 /\ negative <=> U32AboveInt32Max(st[1])
                 /\ (~C12_InRange(text) /\ ~negative) => st[1] = U32Zero

\* A device element with the id text -1 has been parsed and the device holds
\* the id 4294967295.
C12_Witness ==
    /\ target = "device" /\ pc = "parsed"
    /\ attribute(input, "id") = <<"-", "1">>
    /\ device.m_id = U32(65535, 65535)
    /\ NumberU32(device.m_id) = <<"4", "2", "9", "4", "9", "6", "7", "2", "9", "5">>

\* The children of the parsed element that its parse makes an entry of: the
\* service children isExternalService accepts, the children of a devices
\* element with the tag device.
C13_Parsed ==
    IF target = "iq"
    THEN LET cs == C4_Children(input)
         IN  [i \in { j \in 1..Len(cs) : C4_Accepted(cs[j]) } |->
                  ExternalService_parse(QXmppExternalServicePrivate, cs[i])]
    ELSE LET cs == input.children
         IN  [i \in { j \in 1..Len(cs) : cs[j].tag = "device" } |->
                  DeviceElement_parse(QXmppOmemoDeviceElement, cs[i])]

\* The list of the parsed object, and the number of parse calls made on it.
C13_List == IF target = "iq" THEN externalServices ELSE deviceList
C13_Calls == IF pc = "parsed2" THEN 2 ELSE 1

\* C13: parseElementFromChild and QXmppOmemoDeviceList::parse keep the
\* entries already held, unchanged and in place, and append one entry per
\* child they make an entry of, in document order; after k calls with an
\* element of N such children, and any addExternalService or append calls
\* before and between them, the list holds k * N parsed entries besides the
\* added ones.
C13_ListsAccumulate ==
    (target \in { "iq", "deviceList" } /\ pc \in { "parsed", "parsed2" }) =>
        LET list == C13_List
            n == Cardinality(DOMAIN C13_Parsed)
        IN  /\ Len(list) = Len(before) + n
            /\ SubSeq(list, 1, Len(before)) = before
            /\ \A i \in DOMAIN C13_Parsed :
                 list[Len(before) + Cardinality({ j \in DOMAIN C13_Parsed : j <= i })]
                     = C13_Parsed[i]
            /\ Len(list) = C13_Calls * n + edits

\* An IQ that was added to, parsed an element with two accepted children,
\* was added to again and parsed the element again holds six services: the
\* four it held before the second call, then the two new ones.
C13_Witness ==
    /\ target = "iq" /\ pc = "parsed2"
    /\ edits = 2
    /\ Cardinality(DOMAIN C13_Parsed) = 2
    /\ Len(before) = 4 /\ before[1] = FullService /\ before[4] = FullService
    /\ Len(externalServices) = 6
    /\ SubSeq(externalServices, 1, 4) = before
    /\ externalServices[5] = before[2] /\ externalServices[6] = before[3]

=============================================================================
